---- MODULE Spec2Model ----
(***************************************************************************)
(* A model of the restaurant REST backend: the startup sequence of         *)
(* server.js, the connection singleton of db.js, the restaurant handlers   *)
(* of api/restaurants/restaurantsController.js (the variant with ownership *)
(* checks, search, pagination and GridFS pictures) and the handlers of the *)
(* users router.                                                           *)
(*                                                                         *)
(* Every handler is an async function; it runs from one await of a store   *)
(* operation to the next without being interrupted, and the store executes *)
(* each operation atomically.  So a handler is modelled as one action per  *)
(* store operation: the operation together with the handler's code up to   *)
(* the next store operation (or the response).  A store operation may      *)
(* fail (the driver's promise rejects), which the handler's catch block    *)
(* turns into a 500.                                                       *)
(*                                                                         *)
(* Specifications:                                                         *)
(*   Spec         startup and the create / update / delete handlers,       *)
(*                requests running concurrently;                           *)
(*   SpecPicture  startup, create, delete and the picture upload,          *)
(*                requests running concurrently;                           *)
(*   SpecSerial   the handlers of both routers, one request at a time;     *)
(*   SpecPage     startup and the paginated reads GET / and GET /search;   *)
(*   SpecSort     startup, creates, updates and a sorted GET /search;      *)
(*   SpecUsers    startup and the handlers of the users router, requests   *)
(*                running concurrently;                                    *)
(*   SpecAnswer   startup, create and the picture upload and download, one *)
(*                request at a time, where every store operation and every *)
(*                stream that was started comes back.                      *)
(***************************************************************************)
EXTENDS Integers, Sequences, FiniteSets, TLC

(* ------------------------------ bounds --------------------------------- *)

\* Concurrent request slots (each slot runs one request after the other).
NReq == 2
\* Restaurant documents ever inserted (the store generates a fresh _id each).
MaxRest == 2
\* GridFS files ever opened for upload (the driver generates a fresh id each).
MaxFiles == 2
\* Largest value of the wall clock read by `new Date()`.
MaxTime == 2
\* Longest `page` and `limit` query strings.
MaxPageLen == 2
MaxLimitLen == 3
\* Largest number of documents countDocuments reports.
MaxTotal == 3
\* User documents ever inserted.
MaxUsers == 2

Reqs == 1..NReq

(* ------------------------------ values --------------------------------- *)

\* The result of findOne when nothing matches (null), and the empty body.
NoDoc == <<>>

\* Caller-supplied owner ids.  "" stands for an absent or empty ownerId:
\* both are falsy in `if (!ownerId)`.
OwnerInputs == {"", "o1", "o2"}

\* req.params.id: 0 stands for a string that is no ObjectId; 1..MaxRest are
\* well-formed ObjectIds (of a document that may or may not exist).
IdInputs == 0..MaxRest

\* ObjectId.isValid(req.params.id)
ObjectIdIsValid(id) == id # 0

\* Request bodies without their ownerId: the free-form fields of a restaurant.
\* createdAt 0 is a caller-chosen date, before every reading of the clock;
\* pictureId 0 is a caller-supplied null.
RestaurantData ==
  { [name |-> "n1"],
    [name |-> "n2", searchScore |-> 99, createdAt |-> 0, pictureId |-> 0] }

\* { ...a, ...b }: the fields of b win.  Also the effect of $set: b on a.
Merge(a, b) ==
  [f \in (DOMAIN a) \cup (DOMAIN b) |-> IF f \in DOMAIN b THEN b[f] ELSE a[f]]

\* Mutant of HasPicture: a null pictureId counts as a picture.
HasPictureField(doc) == "pictureId" \in DOMAIN doc

\* Truthiness of restaurant.pictureId (absent, or null, is falsy).
HasPicture(doc) == "pictureId" \in DOMAIN doc /\ doc.pictureId # 0

(* ------------------- query strings and JS numbers ---------------------- *)

\* The characters query strings are made of.
Chars == {"0", "1", "2", "-", "a"}

\* The strings over Chars of length at most n, as sequences of characters.
Strings(n) == UNION { [1..k -> Chars] : k \in 0..n }

\* A query parameter: absent (undefined), or a value.
Absent(empty) == [present |-> FALSE, value |-> empty]
Param(v) == [present |-> TRUE, value |-> v]

\* `field && query`: an absent or empty string is falsy.
Truthy(p) == p.present /\ p.value # ""

\* A JS number: an integer, negative zero, NaN or an infinity.
Num(n) == [t |-> "int", v |-> n]
NegZero == [t |-> "-0", v |-> 0]
NaN == [t |-> "nan", v |-> 0]
Infinity == [t |-> "inf", v |-> 1]
NegInfinity == [t |-> "inf", v |-> -1]
IsInt(x) == x.t \in {"int", "-0"}

\* The value of a decimal digit; -1 for any other character.
DigitVal(c) ==
  CASE c = "0" -> 0 [] c = "1" -> 1 [] c = "2" -> 2 [] OTHER -> -1

\* The number of leading decimal digits of s from position i on.
RECURSIVE DigitCount(_, _)
DigitCount(s, i) ==
  IF i > Len(s) \/ DigitVal(s[i]) < 0 THEN 0 ELSE 1 + DigitCount(s, i + 1)

\* The value of the n digits of s from position i on, after acc.
RECURSIVE DigitsValue(_, _, _, _)
DigitsValue(s, i, n, acc) ==
  IF n = 0 THEN acc ELSE DigitsValue(s, i + 1, n - 1, 10 * acc + DigitVal(s[i]))

\* parseInt(s) of a string: an optional sign, then the longest prefix of
\* decimal digits; NaN when there is no digit.
ParseIntString(s) ==
  LET neg == Len(s) > 0 /\ s[1] = "-"
      first == IF neg THEN 2 ELSE 1
      n == DigitCount(s, first)
      v == DigitsValue(s, first, n, 0) IN
  IF n = 0 THEN NaN
  ELSE IF neg THEN (IF v = 0 THEN NegZero ELSE Num(-v))
  ELSE Num(v)

\* parseInt(p) where an absent parameter has taken its numeric default d.
ParseInt(p, d) == IF p.present THEN ParseIntString(p.value) ELSE Num(d)

\* Math.min(a, b) for an integer b.
MathMin(a, b) ==
  IF a.t = "nan" THEN NaN
  ELSE IF a.t = "inf" THEN (IF a.v < 0 THEN a ELSE Num(b))
  ELSE IF a.v < b THEN a ELSE Num(b)

\* (a - 1) * b
SkipOf(a, b) == IF IsInt(a) /\ IsInt(b) THEN Num((a.v - 1) * b.v) ELSE NaN

\* Math.ceil(n / d) for an integer n >= 0.
MathCeilDiv(n, d) ==
  IF d.t = "nan" THEN NaN
  ELSE IF d.t = "inf" THEN Num(IF d.v > 0 /\ n > 0 THEN 1 ELSE 0)
  ELSE IF d.v = 0 THEN (IF n = 0 THEN NaN ELSE IF d.t = "-0" THEN NegInfinity ELSE Infinity)
  ELSE IF d.v > 0 THEN Num(-((-n) \div d.v))
  ELSE Num(-(n \div (-d.v)))

\* a < b
LessThan(a, b) ==
  IF a.t = "nan" \/ b.t = "nan" THEN FALSE
  ELSE IF a.t = "inf" THEN a.v < 0 /\ ~(b.t = "inf" /\ b.v < 0)
  ELSE IF b.t = "inf" THEN b.v > 0
  ELSE a.v < b.v

\* JSON.stringify of a number: NaN and the infinities become null.
Null == [t |-> "null", v |-> 0]
Json(x) == IF IsInt(x) THEN Num(x.v) ELSE Null

(* ------------------------------ state ---------------------------------- *)

VARIABLES
  startPc,      \* position of server.js: "start", "resolved", "listening"
  connect,      \* MongoClient.connect promise: "none", "pending", "ok", "failed"
  proc,         \* the process: "running" or "exited"
  db,           \* db.js `db` is set
  bucket,       \* db.js `bucket` is set
  restaurants,  \* the restaurants collection: _id -> document or NoDoc (deleted)
  files,        \* the GridFS bucket: file id -> files document or NoDoc
  now,          \* the wall clock
  users,        \* the users collection: insertion index -> document or NoDoc
  req,          \* per request slot: the handler's position and locals
  totalCount,   \* what countDocuments returns to GET / and GET /search
  getReq,       \* the query parameters of the last GET / or GET /search
  getRes        \* its response, and the store queries it issued

startVars == <<startPc, connect, proc, db, bucket>>
storeVars == <<restaurants, files>>
pageVars == <<totalCount, getReq, getRes>>
vars == <<startPc, connect, proc, db, bucket, restaurants, files, users, now,
          req, totalCount, getReq, getRes>>

\* A slot with no request.
IdleReq ==
  [kind |-> "none", pc |-> "idle", id |-> 0, ownerId |-> "", uid |-> "", body |-> NoDoc,
   restaurant |-> NoDoc, oldDeleted |-> "na", fileId |-> 0, mimetype |-> <<>>,
   status |-> 0]

\* No GET request yet, and no response.
NoGet == [route |-> "none", page |-> Absent(<<>>), limit |-> Absent(<<>>),
          field |-> Absent(""), query |-> Absent("")]
NoRes == [status |-> 0, finds |-> 0, counts |-> 0, pagination |-> <<>>]

Init ==
  /\ startPc = "start"
  /\ connect = "none"
  /\ proc = "running"
  /\ db = FALSE
  /\ bucket = FALSE
  /\ restaurants = <<>>
  /\ files = <<>>
  /\ users = <<>>
  /\ now = 1
  /\ req = [r \in Reqs |-> IdleReq]
  /\ totalCount = 0
  /\ getReq = NoGet
  /\ getRes = NoRes

(* ----------------------- db.js and server.js --------------------------- *)

\* connectToServer: starts MongoClient.connect and returns without awaiting
\* it, so the promise the async function returns is already resolved.
ConnectToServer ==
  /\ proc = "running" /\ startPc = "start"
  /\ connect' = "pending"
  /\ startPc' = "resolved"
  /\ UNCHANGED <<proc, db, bucket, restaurants, files, now, req, pageVars, users>>

\* The .then callback of server.js: app.listen.
Listen ==
  /\ proc = "running" /\ startPc = "resolved"
  /\ startPc' = "listening"
  /\ UNCHANGED <<connect, proc, db, bucket, restaurants, files, now, req, pageVars, users>>

\* The .then callback inside connectToServer: the connection is up.
ConnectOk ==
  /\ proc = "running" /\ startPc = "listening" /\ connect = "pending"
  /\ connect' = "ok"
  /\ db' = TRUE
  /\ bucket' = TRUE
  /\ UNCHANGED <<startPc, proc, restaurants, files, now, req, pageVars, users>>

\* MongoClient.connect rejects.  Nothing handles the rejection (the promise
\* is neither awaited nor returned): depending on the runtime's
\* unhandled-rejection mode the process goes on or is terminated.
ConnectFail ==
  /\ proc = "running" /\ startPc = "listening" /\ connect = "pending"
  /\ connect' = "failed"
  /\ proc' \in {"running", "exited"}
  /\ UNCHANGED <<startPc, db, bucket, restaurants, files, now, req, pageVars, users>>

\* getDb / getBucket throw when the handle is not set.
GetDbThrows == ~db
GetBucketThrows == ~bucket

\* Time passes.
Tick ==
  /\ proc = "running" /\ now < MaxTime
  /\ now' = now + 1
  /\ UNCHANGED <<startVars, storeVars, req, pageVars, users>>

(* --------------------------- the store --------------------------------- *)

\* collection.findOne({ _id })
FindById(id) ==
  IF id \in DOMAIN restaurants THEN restaurants[id] ELSE NoDoc

\* The ids of the documents matching { ownerId }.
IdsOfOwner(o) ==
  { i \in DOMAIN restaurants : restaurants[i] # NoDoc /\ restaurants[i].ownerId = o }

\* collection.findOne({ ownerId }): the first match in insertion order.
FindByOwner(o) ==
  IF IdsOfOwner(o) = {} THEN NoDoc
  ELSE restaurants[CHOOSE i \in IdsOfOwner(o) : \A j \in IdsOfOwner(o) : i <= j]

\* A slot is free before its first request and after a response.
Free(r) == req[r].pc \in {"idle", "done"}

\* A request arrives at a listening server.  Slots are interchangeable, so
\* it takes the lowest free one.
CanStart(r) ==
  /\ proc = "running" /\ startPc = "listening"
  /\ Free(r)
  /\ \A q \in Reqs : q < r => ~Free(q)

\* A handler's continuation runs when its store operation returns.
At(r, pc) == proc = "running" /\ req[r].pc = pc

\* A request of the given kind whose handler has read the id and ownerId.
Request(kind, id, o) == [IdleReq EXCEPT !.kind = kind, !.id = id, !.ownerId = o]

\* res.status(code).send(...) ends the request.  A finished slot keeps what
\* the handler had read of the request and what it answered; the locals
\* `updateData` and `restaurant` are gone.
Respond(r, rec, code) ==
  req' = [req EXCEPT ![r] =
            [rec EXCEPT !.pc = "done", !.status = code, !.body = NoDoc, !.restaurant = NoDoc]]

\* The handler goes on to its next store operation.
Goto(r, rec, pc) == req' = [req EXCEPT ![r] = [rec EXCEPT !.pc = pc]]

(* --------------------------- POST / ------------------------------------ *)

\* The documents inserted and being inserted stay within the bound.
RoomForRestaurant ==
  Len(restaurants) + Cardinality({q \in Reqs : req[q].pc = "insert"}) < MaxRest

\* Mutant of ExistingRestaurant: the duplicate-owner lookup finds nothing.
NoExistingRestaurant(o) == NoDoc

\* const existingRestaurant = await collection.findOne({ ownerId })
ExistingRestaurant(o) == FindByOwner(o)

\* router.post("/"), up to and including findOne({ ownerId }).
CreateStart(r) ==
  /\ CanStart(r)
  /\ RoomForRestaurant
  /\ IF GetDbThrows THEN Respond(r, Request("create", 0, ""), 500)
     ELSE \E o \in OwnerInputs :
       IF o = "" THEN Respond(r, Request("create", 0, o), 400)
       ELSE \/ Respond(r, Request("create", 0, o), 500)
            \/ IF ExistingRestaurant(o) # NoDoc
               THEN Respond(r, Request("create", 0, o), 400)
               ELSE \E data \in RestaurantData :
                      Goto(r, [Request("create", 0, o) EXCEPT !.body = data], "insert")
  /\ UNCHANGED <<startVars, storeVars, now, pageVars, users>>

\* Mutant of NewRestaurant: the fields of the body win over the stamps.
NewRestaurantBodyWins(data, o) ==
  Merge([ownerId |-> o, searchScore |-> 10, createdAt |-> now], data)

\* The document POST / inserts.
NewRestaurant(data, o) ==
  Merge(data, [ownerId |-> o, searchScore |-> 10, createdAt |-> now])

\* insertOne(newRestaurant) and the 201 response.
CreateInsert(r) ==
  /\ At(r, "insert")
  /\ \/ /\ restaurants' = Append(restaurants, NewRestaurant(req[r].body, req[r].ownerId))
        /\ Respond(r, [req[r] EXCEPT !.id = Len(restaurants) + 1], 201)
     \/ /\ Respond(r, req[r], 500)
        /\ UNCHANGED restaurants
  /\ UNCHANGED <<startVars, files, now, pageVars, users>>

(* --------------------- PATCH /:id and DELETE /:id ---------------------- *)

\* Mutant of OwnerCheck: another owner's restaurant is reported as missing.
OwnerCheckHidesExistence(restaurant, o) ==
  IF restaurant = NoDoc THEN 404
  ELSE IF restaurant.ownerId # o THEN 404
  ELSE 0

\* Mutant of OwnerCheck: every caller passes for an existing restaurant.
OwnerCheckAllowsAll(restaurant, o) ==
  IF restaurant = NoDoc THEN 404 ELSE 0

\* The status the ownership check answers with for what findOne({ _id })
\* returned; 0 when the caller owns the restaurant and the handler goes on.
OwnerCheck(restaurant, o) ==
  IF restaurant = NoDoc THEN 404
  ELSE IF restaurant.ownerId # o THEN 403
  ELSE 0

\* The part PATCH /:id and DELETE /:id share: the id and ownerId checks,
\* findOne({ _id }) and the ownership check.  `next` is the position of the
\* write that follows, `bodies` the update data the request may carry.
OwnerCheckedStart(r, kind, next, bodies) ==
  IF GetDbThrows THEN Respond(r, Request(kind, 0, ""), 500)
  ELSE \E id \in IdInputs :
    IF ~ObjectIdIsValid(id) THEN Respond(r, Request(kind, id, ""), 400)
    ELSE \E o \in OwnerInputs :
      IF o = "" THEN Respond(r, Request(kind, id, o), 400)
      ELSE \/ Respond(r, Request(kind, id, o), 500)
           \/ LET restaurant == FindById(id) IN
              IF OwnerCheck(restaurant, o) # 0
              THEN Respond(r, Request(kind, id, o), OwnerCheck(restaurant, o))
              ELSE \E data \in bodies :
                     Goto(r, [Request(kind, id, o) EXCEPT !.body = data, !.restaurant = restaurant], next)

\* router.patch("/:id"), up to and including the ownership check.
PatchStart(r) ==
  /\ CanStart(r)
  /\ OwnerCheckedStart(r, "patch", "update", RestaurantData)
  /\ UNCHANGED <<startVars, storeVars, now, pageVars, users>>

\* Mutant of UpdateOne: the update replaces the document instead of
\* merging into it.
UpdateOneReplaces(id, updateData) ==
  IF FindById(id) = NoDoc THEN restaurants
  ELSE [restaurants EXCEPT ![id] = updateData]

\* updateOne({ _id }, { $set: updateData }) on the collection.
UpdateOne(id, updateData) ==
  IF FindById(id) = NoDoc THEN restaurants
  ELSE [restaurants EXCEPT ![id] = Merge(@, updateData)]

\* The update of PATCH /:id and the 200 response.
PatchUpdate(r) ==
  /\ At(r, "update")
  /\ \/ /\ restaurants' = UpdateOne(req[r].id, req[r].body)
        /\ Respond(r, req[r], 200)
     \/ /\ Respond(r, req[r], 500)
        /\ UNCHANGED restaurants
  /\ UNCHANGED <<startVars, files, now, pageVars, users>>

\* router.delete("/:id"), up to and including the ownership check.
DeleteStart(r) ==
  /\ CanStart(r)
  /\ OwnerCheckedStart(r, "delete", "deleteOne", {NoDoc})
  /\ UNCHANGED <<startVars, storeVars, now, pageVars, users>>

\* deleteOne({ _id }) on the collection.
DeleteOne(id) ==
  IF FindById(id) = NoDoc THEN restaurants
  ELSE [restaurants EXCEPT ![id] = NoDoc]

\* The deleteOne of DELETE /:id and the 200 response.
DeleteDelete(r) ==
  /\ At(r, "deleteOne")
  /\ \/ /\ restaurants' = DeleteOne(req[r].id)
        /\ Respond(r, req[r], 200)
     \/ /\ Respond(r, req[r], 500)
        /\ UNCHANGED restaurants
  /\ UNCHANGED <<startVars, files, now, pageVars, users>>

(* --------------------------- GET /owner/:ownerId ----------------------- *)

\* router.get("/owner/:ownerId"): findOne({ ownerId }) and the response.
GetByOwner(r) ==
  /\ CanStart(r)
  /\ IF GetDbThrows THEN Respond(r, Request("owner", 0, ""), 500)
     ELSE \E o \in OwnerInputs \ {""} :
            \/ Respond(r, Request("owner", 0, o), 500)
            \/ Respond(r, Request("owner", 0, o), IF FindByOwner(o) = NoDoc THEN 404 ELSE 200)
  /\ UNCHANGED <<startVars, storeVars, now, pageVars, users>>

(* --------------------------- POST /:id/picture ------------------------- *)

\* A file of the bucket is live when its files document exists.
Live(f) == f \in DOMAIN files /\ files[f] # NoDoc

\* The files opened and about to be opened stay within the bound.
RoomForFile ==
  Len(files) + Cardinality({q \in Reqs : req[q].pc = "delOld"}) < MaxFiles

\* bucket.openUploadStream: the driver generates the file's id; the files
\* document is written when the stream finishes.
OpenUploadStream(r, rec) ==
  /\ files' = Append(files, NoDoc)
  /\ Goto(r, [rec EXCEPT !.fileId = Len(files) + 1], "stream")

\* The content types (file.mimetype) of the uploaded files, as sequences of
\* characters: image/png, text/png, image, ximage/.
MimeInputs ==
  { <<"i", "m", "a", "g", "e", "/", "p", "n", "g">>,
    <<"t", "e", "x", "t", "/", "p", "n", "g">>,
    <<"i", "m", "a", "g", "e">>,
    <<"x", "i", "m", "a", "g", "e", "/">> }

\* No file part in the request: multer leaves req.file undefined.
NoFile == <<>>

\* s.startsWith(prefix)
StartsWith(s, prefix) ==
  Len(s) >= Len(prefix) /\ SubSeq(s, 1, Len(prefix)) = prefix

\* Mutant of FileFilter: every file is accepted.
FileFilterAcceptsAll(mimetype) == TRUE

\* multer's fileFilter: only image files are accepted.
FileFilter(mimetype) == StartsWith(mimetype, <<"i", "m", "a", "g", "e", "/">>)

\* An upload request whose file has the given content type.
UploadRequest(id, mimetype) ==
  [Request("upload", id, "") EXCEPT !.mimetype = mimetype]

\* router.post("/:id/picture"): the multer middleware, then the handler up
\* to and including findOne({ _id }); with no old picture to delete it goes
\* on to open the upload stream.  A file the filter rejects makes multer
\* pass its error on: the handler is skipped and the framework's default
\* error handler answers 500.
UploadStart(r) ==
  /\ CanStart(r)
  /\ RoomForFile
  /\ \/ \E mimetype \in MimeInputs :
          /\ ~FileFilter(mimetype)
          /\ Respond(r, UploadRequest(0, mimetype), 500)
          /\ UNCHANGED files
     \/ IF GetDbThrows \/ GetBucketThrows
        THEN Respond(r, Request("upload", 0, ""), 500) /\ UNCHANGED files
        ELSE \E id \in IdInputs :
          IF ~ObjectIdIsValid(id) THEN Respond(r, Request("upload", id, ""), 400) /\ UNCHANGED files
          ELSE \E file \in {NoFile} \cup {m \in MimeInputs : FileFilter(m)} :
            IF file = NoFile THEN Respond(r, Request("upload", id, ""), 400) /\ UNCHANGED files
            ELSE \/ Respond(r, UploadRequest(id, file), 500) /\ UNCHANGED files
                 \/ LET restaurant == FindById(id)
                        rec == [UploadRequest(id, file) EXCEPT !.restaurant = restaurant] IN
                    IF restaurant = NoDoc THEN Respond(r, rec, 404) /\ UNCHANGED files
                    ELSE IF HasPicture(restaurant) THEN Goto(r, rec, "delOld") /\ UNCHANGED files
                    ELSE OpenUploadStream(r, rec)
  /\ UNCHANGED <<startVars, restaurants, now, pageVars, users>>

\* Mutant of DeleteFile: the file stays in the bucket.
DeleteFileKeeps(f) == files

\* bucket.delete(f) of a live file: its files document is removed.
DeleteFile(f) == [files EXCEPT ![f] = NoDoc]

\* Mutant of OldDeleteFailed: the failure ends the request with 500.
OldDeleteFailedAborts(r) ==
  /\ Respond(r, [req[r] EXCEPT !.oldDeleted = "failed"], 500)
  /\ UNCHANGED files

\* The catch block around bucket.delete: the failure is logged, and the
\* handler goes on to open the upload stream.
OldDeleteFailed(r) ==
  OpenUploadStream(r, [req[r] EXCEPT !.oldDeleted = "failed"])

\* bucket.delete(restaurant.pictureId) inside its own try / catch: it fails
\* when there is no such file, or on a store error.
UploadDeleteOld(r) ==
  /\ At(r, "delOld")
  /\ LET old == req[r].restaurant.pictureId IN
     \/ /\ Live(old)
        /\ files' = Append(DeleteFile(old), NoDoc)
        /\ Goto(r, [req[r] EXCEPT !.oldDeleted = "ok", !.fileId = Len(files) + 1], "stream")
     \/ OldDeleteFailed(r)
  /\ UNCHANGED <<startVars, restaurants, now, pageVars, users>>

\* uploadStream.end(buffer): the stream emits "finish" once the files
\* document is written, or "error", which the handler answers with 500.
UploadStream(r) ==
  /\ At(r, "stream")
  /\ \/ /\ files' = [files EXCEPT ![req[r].fileId] = [restaurantId |-> req[r].id]]
        /\ Goto(r, req[r], "setPic")
     \/ /\ Respond(r, req[r], 500)
        /\ UNCHANGED files
  /\ UNCHANGED <<startVars, restaurants, now, pageVars, users>>

\* The "finish" callback: updateOne({ _id }, { $set: { pictureId } }) and the
\* 200 response.  The callback has no try / catch: when the update fails its
\* promise rejects unhandled and no response is ever sent; depending on the
\* runtime's unhandled-rejection mode the process goes on or is terminated.
UploadFinish(r) ==
  /\ At(r, "setPic")
  /\ \/ /\ restaurants' = UpdateOne(req[r].id, [pictureId |-> req[r].fileId])
        /\ Respond(r, req[r], 200)
        /\ UNCHANGED proc
     \/ /\ Goto(r, req[r], "hung")
        /\ proc' \in {"running", "exited"}
        /\ UNCHANGED restaurants
  /\ UNCHANGED <<startPc, connect, db, bucket, files, now, pageVars, users>>

(* --------------------------- GET /:id/picture -------------------------- *)

\* The handler from the return of findOne({ _id }) on: 404 when there is no
\* restaurant or no picture; else bucket.openDownloadStream(pictureId), and
\* the handler goes on to look the file up (fileId is the file the stream
\* is opened on).
DownloadFound(r, id) ==
  LET restaurant == FindById(id)
      rec == [Request("download", id, "") EXCEPT !.restaurant = restaurant] IN
  IF restaurant = NoDoc THEN Respond(r, rec, 404)
  ELSE IF ~HasPicture(restaurant) THEN Respond(r, rec, 404)
  ELSE Goto(r, [rec EXCEPT !.fileId = restaurant.pictureId], "findFile")

\* router.get("/:id/picture"), up to and including findOne({ _id }).
DownloadStart(r) ==
  /\ CanStart(r)
  /\ IF GetDbThrows \/ GetBucketThrows
     THEN Respond(r, Request("download", 0, ""), 500)
     ELSE \E id \in IdInputs :
       IF ~ObjectIdIsValid(id) THEN Respond(r, Request("download", id, ""), 400)
       ELSE \/ Respond(r, Request("download", id, ""), 500)
            \/ DownloadFound(r, id)
  /\ UNCHANGED <<startVars, storeVars, now, pageVars, users>>

\* bucket.find({ _id: pictureId }).toArray() and what follows: 404 when the
\* file is not there; else the stream is piped into the response (200),
\* unless it emits "error", which is answered 404.
DownloadFind(r) ==
  /\ At(r, "findFile")
  /\ \/ Respond(r, req[r], 500)
     \/ IF ~Live(req[r].fileId) THEN Respond(r, req[r], 404)
        ELSE \/ Respond(r, req[r], 200)
             \/ Respond(r, req[r], 404)
  /\ UNCHANGED <<startVars, storeVars, now, pageVars, users>>

(* ----------------------- GET / and GET /search -------------------------- *)

PageInputs == {Absent(<<>>)} \cup {Param(v) : v \in Strings(MaxPageLen)}
LimitInputs == {Absent(<<>>)} \cup {Param(v) : v \in Strings(MaxLimitLen)}
FieldInputs == {Absent(""), Param(""), Param("name"), Param("cuisine"), Param("address"), Param("ownerId")}
QueryInputs == {Absent(""), Param(""), Param("piz")}

\* const allowedFields = ["name", "cuisine", "address"]
AllowedFields == {"name", "cuisine", "address"}

\* GET /search answers 400 for this field and query.
InvalidField(field, query) ==
  Truthy(field) /\ Truthy(query) /\ field.value \notin AllowedFields

\* The store runs find(...).skip(skip).limit(limit): it rejects a skip or a
\* limit that is no integer, and a negative skip; the driver turns a
\* negative limit into its absolute value.
StoreAcceptsFind(skip, limit) == IsInt(skip) /\ skip.v >= 0 /\ IsInt(limit)

\* The pagination object of the response body, as the client reads it.
Pagination(pageNum, limitNum, count) ==
  LET totalPages == MathCeilDiv(count, limitNum) IN
  [currentPage |-> Json(pageNum),
   totalPages |-> Json(totalPages),
   totalResults |-> Json(Num(count)),
   resultsPerPage |-> Json(limitNum),
   hasNextPage |-> LessThan(pageNum, totalPages),
   hasPrevPage |-> LessThan(Num(1), pageNum)]

\* The part GET / and GET /search share, from `// Pagination` on: the find,
\* the count (which returns `count`) and the response; a rejected find is
\* answered 500.
PaginateOver(page, limit, defaultLimit, count) ==
  LET pageNum == ParseInt(page, 1)
      limitNum == MathMin(ParseInt(limit, defaultLimit), 100)
      skip == SkipOf(pageNum, limitNum) IN
  IF StoreAcceptsFind(skip, limitNum)
  THEN [status |-> 200, finds |-> 1, counts |-> 1,
        pagination |-> Pagination(pageNum, limitNum, count)]
  ELSE [status |-> 500, finds |-> 1, counts |-> 0, pagination |-> <<>>]

\* The same over a collection of which only the size is modelled.
Paginate(page, limit, defaultLimit) ==
  PaginateOver(page, limit, defaultLimit, totalCount)

\* The collection has changed size.
CountChanges ==
  /\ getReq = NoGet
  /\ totalCount < MaxTotal
  /\ totalCount' = totalCount + 1
  /\ UNCHANGED <<startVars, storeVars, now, req, users, getReq, getRes>>

\* router.get("/").  The handler is a function of its query and of the
\* collection: a behaviour follows a single request.  A handler that fails
\* in getDb has not read its query.
ListRestaurants ==
  /\ proc = "running" /\ startPc = "listening"
  /\ getReq = NoGet
  /\ IF GetDbThrows
     THEN /\ getReq' = [NoGet EXCEPT !.route = "list"]
          /\ getRes' = [NoRes EXCEPT !.status = 500]
     ELSE \E page \in PageInputs, limit \in LimitInputs :
          /\ getReq' = [NoGet EXCEPT !.route = "list", !.page = page, !.limit = limit]
          /\ getRes' = Paginate(page, limit, 50)
  /\ UNCHANGED <<startVars, storeVars, now, req, users, totalCount>>

\* router.get("/search")
SearchRestaurants ==
  /\ proc = "running" /\ startPc = "listening"
  /\ getReq = NoGet
  /\ IF GetDbThrows
     THEN /\ getReq' = [NoGet EXCEPT !.route = "search"]
          /\ getRes' = [NoRes EXCEPT !.status = 500]
     ELSE \E field \in FieldInputs, query \in QueryInputs, page \in PageInputs, limit \in LimitInputs :
          /\ getReq' = [route |-> "search", page |-> page, limit |-> limit,
                        field |-> field, query |-> query]
          /\ getRes' = IF InvalidField(field, query) THEN [NoRes EXCEPT !.status = 400]
                       ELSE Paginate(page, limit, 10)
  /\ UNCHANGED <<startVars, storeVars, now, req, users, totalCount>>

(* --------------------- the sort of GET /search ------------------------- *)

\* req.query.sortBy and req.query.sortOrder.
SortByInputs == {Absent(""), Param("name"), Param("cuisine"), Param("searchScore")}
SortOrderInputs == {Absent(""), Param("asc"), Param("desc"), Param("down")}

\* const sortOptions = { searchScore: -1 }; sortOptions[sortBy] = ...: the
\* keys of the object in insertion order, each with its direction.  An
\* assignment to a key the object already has replaces the value and keeps
\* the key's place.
SortOptions(sortBy, sortOrder) ==
  LET by == IF sortBy.present THEN sortBy.value ELSE "name"
      order == IF sortOrder.present THEN sortOrder.value ELSE "asc"
      direction == IF order = "desc" THEN -1 ELSE 1 IN
  IF by = "searchScore"
  THEN << [key |-> "searchScore", direction |-> direction] >>
  ELSE << [key |-> "searchScore", direction |-> -1], [key |-> by, direction |-> direction] >>

\* The place of a field's value in the store's sort order: a missing field
\* sorts as null, before every number and string; strings sort as text.
SortValue(doc, key) ==
  IF key \notin DOMAIN doc THEN -1
  ELSE IF key = "name" THEN (IF doc[key] = "n1" THEN 1 ELSE 2)
  ELSE doc[key]

\* Document a comes before document b under the sort options from the n-th
\* key on; documents equal in every key stay in insertion (_id) order.
RECURSIVE SortsBefore(_, _, _, _)
SortsBefore(a, b, options, n) ==
  IF n > Len(options) THEN a < b
  ELSE LET va == SortValue(restaurants[a], options[n].key) * options[n].direction
           vb == SortValue(restaurants[b], options[n].key) * options[n].direction IN
       IF va # vb THEN va < vb ELSE SortsBefore(a, b, options, n + 1)

\* The ids of the documents find({}) matches.
Existing == { i \in DOMAIN restaurants : restaurants[i] # NoDoc }

\* find({}).sort(options).toArray(): the documents in sort order.
FindSorted(options) ==
  LET place(i) == 1 + Cardinality({ j \in Existing : SortsBefore(j, i, options, 1) }) IN
  [p \in 1..Cardinality(Existing) |->
     restaurants[CHOOSE i \in Existing : place(i) = p]]

\* router.get("/search") without filter, page and limit, over the
\* collection as it is: the response carries the sorted documents.
SearchSorted ==
  /\ proc = "running" /\ startPc = "listening"
  /\ getReq = NoGet
  /\ ~GetDbThrows
  /\ \E sortBy \in SortByInputs, sortOrder \in SortOrderInputs :
       /\ getReq' = [route |-> "search", page |-> Absent(<<>>), limit |-> Absent(<<>>),
                     field |-> Absent(""), query |-> Absent(""),
                     sortBy |-> sortBy, sortOrder |-> sortOrder]
       /\ getRes' = [status |-> 200, finds |-> 1, counts |-> 1,
                     pagination |-> PaginateOver(Absent(<<>>), Absent(<<>>), 10,
                                                 Cardinality(Existing)).pagination,
                     restaurants |-> FindSorted(SortOptions(sortBy, sortOrder))]
  /\ UNCHANGED <<startVars, storeVars, now, req, users, totalCount>>

(* ------------------------------ users ---------------------------------- *)

\* JS true and false, as values of a document field (Null is JS null).
JsTrue == [t |-> "true", v |-> 0]
JsFalse == [t |-> "false", v |-> 0]

\* req.params.uid of the /uid/:uid routes.
UidParams == {"u1", "u2"}

\* const allowed roles of POST /: ["user", "restaurantOwner"]
Roles == {"user", "restaurantOwner"}

\* Bodies of POST /: uid and role absent, empty or given (role also outside
\* the enumeration), with or without name and isEmailVerified.
UserBodies ==
  { Merge(Merge(u, ro), rest) :
      u \in {NoDoc, [uid |-> ""], [uid |-> "u1"], [uid |-> "u2"]},
      ro \in {NoDoc, [role |-> "user"], [role |-> "restaurantOwner"], [role |-> "admin"]},
      rest \in { [email |-> "e1"],
                 [email |-> "e1", name |-> "n1"],
                 [email |-> "e1", name |-> "n1", isEmailVerified |-> JsTrue] } }

\* Bodies of PATCH /uid/:uid.
UserUpdateBodies ==
  { [name |-> "n2"],
    [uid |-> "u3", updatedAt |-> 0, role |-> "admin"] }

\* Bodies of PATCH /uid/:uid/verify-email.
VerifyBodies ==
  { NoDoc,
    [isEmailVerified |-> JsTrue],
    [isEmailVerified |-> JsFalse, role |-> "admin", uid |-> "u3", createdAt |-> 0] }

\* !body.f for a string field: absent or empty.
Missing(body, f) == f \notin DOMAIN body \/ body[f] = ""

\* delete doc.f
Without(doc, f) == [g \in (DOMAIN doc) \ {f} |-> doc[g]]

\* The indexes of the documents matching { uid }.
UsersOfUid(uid) ==
  { i \in DOMAIN users : users[i] # NoDoc /\ users[i].uid = uid }

\* The first document matching { uid }, in insertion order; 0 when none.
FirstOfUid(uid) ==
  IF UsersOfUid(uid) = {} THEN 0
  ELSE CHOOSE i \in UsersOfUid(uid) : \A j \in UsersOfUid(uid) : i <= j

\* collection.findOne({ uid })
FindUser(uid) == IF FirstOfUid(uid) = 0 THEN NoDoc ELSE users[FirstOfUid(uid)]

\* A user request whose handler has read the uid.
UserRequest(kind, uid) == [IdleReq EXCEPT !.kind = kind, !.uid = uid]

\* The documents inserted and being inserted stay within the bound.
RoomForUser ==
  Len(users) + Cardinality({q \in Reqs : req[q].pc = "insertUser"}) < MaxUsers

\* Mutant of ValidRole: every role is accepted.
AnyRole(role) == TRUE

\* ["user", "restaurantOwner"].includes(role)
ValidRole(role) == role \in Roles

\* Mutant of ExistingUser: the duplicate-uid lookup finds nothing.
NoExistingUser(uid) == NoDoc

\* const existingUser = await collection.findOne({ uid })
ExistingUser(uid) == FindUser(uid)

\* POST / from the return of findOne({ uid }) on: 409 when the uid is taken,
\* else the handler goes on to insert.
UserCreateFound(r, body) ==
  IF ExistingUser(body.uid) # NoDoc
  THEN Respond(r, UserRequest("userCreate", body.uid), 409)
  ELSE Goto(r, [UserRequest("userCreate", body.uid) EXCEPT !.body = body], "insertUser")

\* POST / from the body on: the required fields, the role, findOne({ uid }).
UserCreateChecked(r, body) ==
  IF Missing(body, "uid") \/ Missing(body, "email") \/ Missing(body, "name") \/ Missing(body, "role")
  THEN Respond(r, UserRequest("userCreate", ""), 400)
  ELSE IF ~ValidRole(body.role)
  THEN Respond(r, UserRequest("userCreate", body.uid), 400)
  ELSE \/ Respond(r, UserRequest("userCreate", body.uid), 500)
       \/ UserCreateFound(r, body)

\* router.post("/") of the users router, up to and including findOne.
UserCreateStart(r) ==
  /\ CanStart(r)
  /\ RoomForUser
  /\ IF GetDbThrows THEN Respond(r, UserRequest("userCreate", ""), 500)
     ELSE \E body \in UserBodies : UserCreateChecked(r, body)
  /\ UNCHANGED <<startVars, storeVars, now, pageVars, users>>

\* The document POST / inserts.
NewUser(body) ==
  [uid |-> body.uid, email |-> body.email, name |-> body.name, role |-> body.role,
   isEmailVerified |-> IF "isEmailVerified" \in DOMAIN body /\ body.isEmailVerified = JsTrue
                       THEN JsTrue ELSE JsFalse,
   createdAt |-> now, updatedAt |-> now]

\* insertOne(newUser) and the 201 response.
UserCreateInsert(r) ==
  /\ At(r, "insertUser")
  /\ \/ /\ users' = Append(users, NewUser(req[r].body))
        /\ Respond(r, req[r], 201)
     \/ /\ Respond(r, req[r], 500)
        /\ UNCHANGED users
  /\ UNCHANGED <<startVars, storeVars, now, pageVars>>

\* updateOne({ uid }, { $set: updates }) on the users collection: the first
\* match is updated.
UpdateOneUser(uid, updates) ==
  IF FirstOfUid(uid) = 0 THEN users
  ELSE [users EXCEPT ![FirstOfUid(uid)] = Merge(@, updates)]

\* Mutant of MatchedStatus: 404 is answered when a document matched.
MatchedStatusInverted(uid) == IF FirstOfUid(uid) = 0 THEN 200 ELSE 404

\* The status for the matchedCount or deletedCount of the operation.
MatchedStatus(uid) == IF FirstOfUid(uid) = 0 THEN 404 ELSE 200

\* Mutant of UserUpdates: the body's uid stays in the update, and the body's
\* updatedAt wins.
UserUpdatesBodyWins(body) == Merge([updatedAt |-> now], body)

\* const updates = { ...req.body, updatedAt: new Date() }; delete updates.uid
UserUpdates(body) == Without(Merge(body, [updatedAt |-> now]), "uid")

\* PATCH /uid/:uid from its parameters on, when updateOne returns.
UserPatched(r, uid, body) ==
  /\ users' = UpdateOneUser(uid, UserUpdates(body))
  /\ Respond(r, UserRequest("userPatch", uid), MatchedStatus(uid))

\* router.patch("/uid/:uid")
UserPatch(r) ==
  /\ CanStart(r)
  /\ IF GetDbThrows
     THEN Respond(r, UserRequest("userPatch", ""), 500) /\ UNCHANGED users
     ELSE \E uid \in UidParams :
            \/ Respond(r, UserRequest("userPatch", uid), 500) /\ UNCHANGED users
            \/ \E body \in UserUpdateBodies : UserPatched(r, uid, body)
  /\ UNCHANGED <<startVars, storeVars, now, pageVars>>

\* Mutant of VerifyUpdates: the whole body is written.
VerifyUpdatesWholeBody(body) == Merge(body, [updatedAt |-> now])

\* { isEmailVerified: isEmailVerified, updatedAt: new Date() }; an undefined
\* isEmailVerified is stored as null.
VerifyUpdates(body) ==
  [isEmailVerified |-> IF "isEmailVerified" \in DOMAIN body THEN body.isEmailVerified ELSE Null,
   updatedAt |-> now]

\* PATCH /uid/:uid/verify-email from its parameters on, when updateOne
\* returns.
UserVerified(r, uid, body) ==
  /\ users' = UpdateOneUser(uid, VerifyUpdates(body))
  /\ Respond(r, UserRequest("userVerify", uid), MatchedStatus(uid))

\* router.patch("/uid/:uid/verify-email")
UserVerifyEmail(r) ==
  /\ CanStart(r)
  /\ IF GetDbThrows
     THEN Respond(r, UserRequest("userVerify", ""), 500) /\ UNCHANGED users
     ELSE \E uid \in UidParams :
            \/ Respond(r, UserRequest("userVerify", uid), 500) /\ UNCHANGED users
            \/ \E body \in VerifyBodies : UserVerified(r, uid, body)
  /\ UNCHANGED <<startVars, storeVars, now, pageVars>>

\* deleteOne({ uid }) on the users collection.
DeleteOneUser(uid) ==
  IF FirstOfUid(uid) = 0 THEN users
  ELSE [users EXCEPT ![FirstOfUid(uid)] = NoDoc]

\* router.delete("/uid/:uid")
UserDelete(r) ==
  /\ CanStart(r)
  /\ IF GetDbThrows
     THEN Respond(r, UserRequest("userDelete", ""), 500) /\ UNCHANGED users
     ELSE \E uid \in UidParams :
            \/ Respond(r, UserRequest("userDelete", uid), 500) /\ UNCHANGED users
            \/ /\ users' = DeleteOneUser(uid)
               /\ Respond(r, UserRequest("userDelete", uid), MatchedStatus(uid))
  /\ UNCHANGED <<startVars, storeVars, now, pageVars>>

\* router.get("/uid/:uid")
UserGet(r) ==
  /\ CanStart(r)
  /\ IF GetDbThrows THEN Respond(r, UserRequest("userGet", ""), 500)
     ELSE \E uid \in UidParams :
            \/ Respond(r, UserRequest("userGet", uid), 500)
            \/ Respond(r, UserRequest("userGet", uid), IF FindUser(uid) = NoDoc THEN 404 ELSE 200)
  /\ UNCHANGED <<startVars, storeVars, now, pageVars, users>>

\* router.get("/") of the users router
UserList(r) ==
  /\ CanStart(r)
  /\ \/ Respond(r, UserRequest("userList", ""), 500)
     \/ ~GetDbThrows /\ Respond(r, UserRequest("userList", ""), 200)
  /\ UNCHANGED <<startVars, storeVars, now, pageVars, users>>

(* --------------------------- specifications ---------------------------- *)

Startup ==
  \/ ConnectToServer
  \/ Listen
  \/ ConnectOk
  \/ ConnectFail

\* Startup and the create / update / delete handlers, running concurrently.
Next ==
  \/ Startup
  \/ Tick
  \/ \E r \in Reqs : CreateStart(r)
  \/ \E r \in Reqs : CreateInsert(r)
  \/ \E r \in Reqs : PatchStart(r)
  \/ \E r \in Reqs : PatchUpdate(r)
  \/ \E r \in Reqs : DeleteStart(r)
  \/ \E r \in Reqs : DeleteDelete(r)

Spec == Init /\ [][Next]_vars

\* Startup, create, delete and the picture upload, running concurrently.
NextPicture ==
  \/ Startup
  \/ \E r \in Reqs : CreateStart(r)
  \/ \E r \in Reqs : CreateInsert(r)
  \/ \E r \in Reqs : DeleteStart(r)
  \/ \E r \in Reqs : DeleteDelete(r)
  \/ \E r \in Reqs : UploadStart(r)
  \/ \E r \in Reqs : UploadDeleteOld(r)
  \/ \E r \in Reqs : UploadStream(r)
  \/ \E r \in Reqs : UploadFinish(r)

SpecPicture == Init /\ [][NextPicture]_vars

\* No restaurant request has written yet; no user request has written yet.
RestaurantsUntouched == restaurants = <<>> /\ files = <<>>
UsersUntouched == users = <<>>

\* All of the handlers of both routers, one request at a time: only the
\* first slot is used.  The two routers share the connection and the clock
\* and no collection: no restaurant handler reads or writes the users, and
\* no user handler the restaurants or the bucket.  So the requests that
\* write go to one router per behaviour: the stores of the other stay as
\* they were at startup.
NextSerial ==
  \/ Startup
  \/ Tick
  \/ UsersUntouched /\ CreateStart(1)
  \/ UsersUntouched /\ CreateInsert(1)
  \/ UsersUntouched /\ PatchStart(1)
  \/ UsersUntouched /\ PatchUpdate(1)
  \/ UsersUntouched /\ DeleteStart(1)
  \/ UsersUntouched /\ DeleteDelete(1)
  \/ UsersUntouched /\ UploadStart(1)
  \/ UsersUntouched /\ UploadDeleteOld(1)
  \/ UsersUntouched /\ UploadStream(1)
  \/ UsersUntouched /\ UploadFinish(1)
  \/ UsersUntouched /\ DownloadStart(1)
  \/ UsersUntouched /\ DownloadFind(1)
  \/ UsersUntouched /\ GetByOwner(1)
  \/ RestaurantsUntouched /\ UserCreateStart(1)
  \/ RestaurantsUntouched /\ UserCreateInsert(1)
  \/ RestaurantsUntouched /\ UserPatch(1)
  \/ RestaurantsUntouched /\ UserVerifyEmail(1)
  \/ RestaurantsUntouched /\ UserDelete(1)
  \/ RestaurantsUntouched /\ UserGet(1)
  \/ RestaurantsUntouched /\ UserList(1)

SpecSerial == Init /\ [][NextSerial]_vars

\* Startup and the two paginated reads, over a collection of any size.
NextPage ==
  \/ Startup
  \/ CountChanges
  \/ ListRestaurants
  \/ SearchRestaurants

SpecPage == Init /\ [][NextPage]_vars

\* Startup, creates and updates one at a time, and one sorted search.
NextSort ==
  \/ Startup
  \/ CreateStart(1)
  \/ CreateInsert(1)
  \/ PatchStart(1)
  \/ PatchUpdate(1)
  \/ SearchSorted

SpecSort == Init /\ [][NextSort]_vars

\* Startup and the writing handlers of the users router, running
\* concurrently.
NextUsers ==
  \/ Startup
  \/ \E r \in Reqs : UserCreateStart(r)
  \/ \E r \in Reqs : UserCreateInsert(r)
  \/ \E r \in Reqs : UserPatch(r)
  \/ \E r \in Reqs : UserVerifyEmail(r)
  \/ \E r \in Reqs : UserDelete(r)

SpecUsers == Init /\ [][NextUsers]_vars

\* Startup, create and the picture handlers, one request at a time.  The
\* store answers every operation and a stream ends with "finish" or
\* "error", so a continuation that is waiting runs.
NextAnswer ==
  \/ Startup
  \/ CreateStart(1)
  \/ CreateInsert(1)
  \/ UploadStart(1)
  \/ UploadDeleteOld(1)
  \/ UploadStream(1)
  \/ UploadFinish(1)
  \/ DownloadStart(1)
  \/ DownloadFind(1)

SpecAnswer ==
  /\ Init /\ [][NextAnswer]_vars
  /\ WF_vars(CreateInsert(1))
  /\ WF_vars(UploadDeleteOld(1))
  /\ WF_vars(UploadStream(1))
  /\ WF_vars(UploadFinish(1))
  /\ WF_vars(DownloadFind(1))

(* ------------------------------ claims --------------------------------- *)

\* Slot r takes the first step of a new request in this step.
Starts(r) == Free(r) /\ req'[r] # req[r]

\* Slot r answers its request in this step.
Answers(r) == req'[r] # req[r] /\ req'[r].pc = "done"

\* C1: a PATCH /:id or DELETE /:id with a well-formed id and a non-empty
\* ownerId whose findOne returns is answered 403 when the restaurant exists
\* with another ownerId, and 404 when no restaurant has that id.
C1_ForbiddenOrNotFound ==
  [][\A r \in Reqs :
       ( /\ Starts(r)
         /\ req'[r].kind \in {"patch", "delete"}
         /\ ObjectIdIsValid(req'[r].id)
         /\ req'[r].ownerId # ""
         /\ req'[r].status # 500 )
       => LET found == FindById(req'[r].id) IN
          /\ (found # NoDoc /\ found.ownerId # req'[r].ownerId)
               => (req'[r].pc = "done" /\ req'[r].status = 403)
          /\ (found = NoDoc)
               => (req'[r].pc = "done" /\ req'[r].status = 404)
          /\ restaurants' = restaurants
    ]_vars

\* C1 witness: both answers occur, a 403 on an existing restaurant and a 404.
C1_Witness ==
  /\ req[1].kind = "patch" /\ req[1].pc = "done" /\ req[1].status = 403
  /\ FindById(req[1].id) # NoDoc
  /\ req[2].kind = "delete" /\ req[2].pc = "done" /\ req[2].status = 404

\* C2: when a create has been answered 201 and its restaurant still exists,
\* a create that then starts with the same ownerId (and whose findOne
\* returns) is answered 400 and inserts nothing.
C2_SecondCreateRejected ==
  [][\A f, r \in Reqs :
       ( /\ req[f].pc = "done" /\ req[f].kind = "create" /\ req[f].status = 201
         /\ FindById(req[f].id) # NoDoc
         /\ Starts(r)
         /\ req'[r].kind = "create"
         /\ req'[r].ownerId = req[f].ownerId
         /\ req'[r].status # 500 )
       => ( /\ req'[r].pc = "done"
            /\ req'[r].status = 400
            /\ restaurants' = restaurants )
    ]_vars

\* C2 witness: a create was rejected as a duplicate of a restaurant that an
\* earlier create inserted and that still exists.
C2_Witness ==
  /\ req[1].kind = "create" /\ req[1].pc = "done" /\ req[1].status = 400
  /\ req[1].ownerId # ""
  /\ IdsOfOwner(req[1].ownerId) # {}
  /\ Len(restaurants) = 1

\* C3: the collection holds at most one restaurant per ownerId.
C3_OneRestaurantPerOwner ==
  \A o \in OwnerInputs : Cardinality(IdsOfOwner(o)) <= 1

\* C7: the server listens only once both handles of db.js are set, so no
\* request is handled while getDb or getBucket would throw.
C7_ListenAfterConnect ==
  /\ startPc = "listening" => (db /\ bucket)
  /\ \A r \in Reqs : req[r].kind # "none" => (db /\ bucket)

\* C10: the update of a PATCH /:id that finds its restaurant is a partial
\* merge: every field of the update data takes its new value, every other
\* field of the document (ownerId among them) keeps its value, no field is
\* removed, and no other document changes; a read of the id returns that
\* document.
C10_PatchMerges ==
  [][\A r \in Reqs :
       ( /\ req[r].kind = "patch" /\ req[r].pc = "update"
         /\ req'[r].pc = "done" /\ req'[r].status = 200
         /\ FindById(req[r].id) # NoDoc )
       => LET id == req[r].id
              before == restaurants[id]
              after == restaurants'[id]
              updateData == req[r].body IN
          /\ DOMAIN after = (DOMAIN before) \cup (DOMAIN updateData)
          /\ \A f \in DOMAIN updateData : after[f] = updateData[f]
          /\ \A f \in (DOMAIN before) \ (DOMAIN updateData) : after[f] = before[f]
          /\ after.ownerId = before.ownerId /\ after.ownerId = req[r].ownerId
          /\ \A j \in DOMAIN restaurants : j # id => restaurants'[j] = restaurants[j]
          /\ DOMAIN restaurants' = DOMAIN restaurants
    ]_vars

\* C10 witness: a PATCH of the name alone was answered 200: the restaurant
\* has the new name and still its ownerId, searchScore and createdAt.
C10_Witness ==
  /\ req[1].kind = "patch" /\ req[1].pc = "done" /\ req[1].status = 200
  /\ FindById(req[1].id) # NoDoc
  /\ FindById(req[1].id) = [name |-> "n1", ownerId |-> req[1].ownerId, searchScore |-> 99,
                            createdAt |-> 0, pictureId |-> 0]

\* C4: every restaurant whose pictureId is set references a live file of
\* the bucket.
C4_PictureIsLive ==
  \A i \in DOMAIN restaurants :
    (restaurants[i] # NoDoc /\ HasPicture(restaurants[i])) => Live(restaurants[i].pictureId)

\* C5: with requests running one after the other, when an upload that
\* deleted the restaurant's previous picture (the file an earlier upload
\* stored) is answered 200, the restaurant's pictureId is the new file, the
\* new file is live and the previous one is not: of the two files exactly
\* one is live.
C5_SecondUploadReplaces ==
  [][( /\ req[1].kind = "upload" /\ req[1].pc = "setPic"
       /\ req[1].oldDeleted = "ok"
       /\ req'[1].pc = "done" /\ req'[1].status = 200 )
     => LET id == req[1].id
            first == req[1].restaurant.pictureId
            second == req'[1].fileId IN
        /\ id \in DOMAIN restaurants' /\ restaurants'[id] # NoDoc
        /\ restaurants'[id].pictureId = second
        /\ second \in DOMAIN files' /\ files'[second] # NoDoc
        /\ first \in DOMAIN files' /\ files'[first] = NoDoc
        /\ Cardinality({f \in {first, second} : files'[f] # NoDoc}) = 1
    ]_vars

\* C5 witness: a second upload was answered 200 after deleting the picture
\* of a first one.
C5_Witness ==
  /\ req[1].kind = "upload" /\ req[1].pc = "done" /\ req[1].status = 200
  /\ req[1].oldDeleted = "ok"
  /\ req[1].fileId = 2
  /\ FindById(req[1].id) # NoDoc /\ FindById(req[1].id).pictureId = 2
  /\ Live(2) /\ ~Live(1)

\* C6: a failed deletion of the previous picture does not end the upload:
\* the handler goes on to stream the new file without answering; the only
\* error answer that can follow is the 500 of a failed stream; and when the
\* stream finishes and the pictureId update returns, the answer is 200, the
\* new file is live and the restaurant (if it still exists) references it.
C6_DeleteFailureSwallowed ==
  [][\A r \in Reqs :
       /\ ( req[r].pc = "delOld" /\ req'[r].oldDeleted = "failed" )
            => ( /\ req'[r].pc = "stream" /\ req'[r].status = 0
                 /\ req'[r].fileId \in DOMAIN files' )
       /\ ( req[r].kind = "upload" /\ req[r].oldDeleted = "failed" /\ ~Free(r) /\ Answers(r) )
            => ( \/ req'[r].status = 200
                 \/ req[r].pc = "stream" /\ req'[r].status = 500 )
       /\ ( /\ req[r].kind = "upload" /\ req[r].oldDeleted = "failed"
            /\ req[r].pc = "setPic" /\ req'[r].pc = "done" )
            => ( /\ req'[r].status = 200
                 /\ files'[req'[r].fileId] # NoDoc
                 /\ FindById(req[r].id) # NoDoc
                      => restaurants'[req[r].id].pictureId = req'[r].fileId )
    ]_vars

\* C6 witness: an upload whose deletion of the previous picture failed was
\* answered 200 and the restaurant references its file.
C6_Witness ==
  \E r \in Reqs :
    /\ req[r].kind = "upload" /\ req[r].pc = "done" /\ req[r].status = 200
    /\ req[r].oldDeleted = "failed"
    /\ FindById(req[r].id) # NoDoc
    /\ FindById(req[r].id).pictureId = req[r].fileId
    /\ Live(req[r].fileId)

\* C8: GET /search with a field parameter outside name, cuisine, address is
\* answered 400 and issues no find and no count, whatever the other
\* parameters are.
C8_InvalidFieldRejected ==
  ( /\ getReq.route = "search"
    /\ getReq.field.present
    /\ getReq.field.value \notin AllowedFields )
  => ( getRes.status = 400 /\ getRes.finds = 0 /\ getRes.counts = 0 )

\* n is the ceiling of total / size.
IsCeiling(n, total, size) ==
  \/ size > 0 /\ n * size >= total /\ (n - 1) * size < total
  \/ size < 0 /\ n * size <= total /\ (n - 1) * size > total

\* C9: the pagination object of every 200 response of GET / and GET /search
\* has hasNextPage = (currentPage < totalPages), hasPrevPage =
\* (currentPage > 1), totalPages = ceiling(totalResults / resultsPerPage)
\* and resultsPerPage <= 100.
C9_PaginationEnvelope ==
  getRes.status = 200 =>
    LET p == getRes.pagination IN
    /\ p.currentPage.t = "int" /\ p.totalPages.t = "int"
    /\ p.totalResults.t = "int" /\ p.resultsPerPage.t = "int"
    /\ p.hasNextPage = (p.currentPage.v < p.totalPages.v)
    /\ p.hasPrevPage = (p.currentPage.v > 1)
    /\ IsCeiling(p.totalPages.v, p.totalResults.v, p.resultsPerPage.v)
    /\ p.resultsPerPage.v <= 100

\* C11: a restaurant's createdAt never changes while the document exists,
\* whatever restaurant request runs.
C11_CreatedAtImmutable ==
  [][\A i \in DOMAIN restaurants :
       (restaurants[i] # NoDoc /\ restaurants'[i] # NoDoc)
         => restaurants'[i].createdAt = restaurants[i].createdAt
    ]_vars

\* The content type does not start with "image/".
NotImage(mimetype) ==
  \/ Len(mimetype) < 6
  \/ \E i \in 1..6 : mimetype[i] # <<"i", "m", "a", "g", "e", "/">>[i]

\* C12: a picture upload whose file's content type does not start with
\* "image/" is answered in its first step, before the handler runs: the
\* answer is 500 (not 200), no file is deleted or created and no restaurant
\* is read or modified.
C12_NonImageRejected ==
  [][\A r \in Reqs :
       ( /\ req'[r] # req[r]
         /\ req'[r].kind = "upload"
         /\ req'[r].mimetype # NoFile
         /\ NotImage(req'[r].mimetype) )
       => ( /\ Starts(r)
            /\ req'[r].pc = "done"
            /\ req'[r].status = 500
            /\ req'[r].restaurant = NoDoc /\ req'[r].fileId = 0
            /\ files' = files
            /\ restaurants' = restaurants )
    ]_vars

\* C12 witness: a text file was rejected while a restaurant with a live
\* picture was there to be replaced.
C12_Witness ==
  \E r \in Reqs :
    /\ req[r].kind = "upload" /\ req[r].pc = "done" /\ req[r].status = 500
    /\ req[r].mimetype = <<"t", "e", "x", "t", "/", "p", "n", "g">>
    /\ \E i \in DOMAIN restaurants :
         /\ restaurants[i] # NoDoc /\ HasPicture(restaurants[i])
         /\ Live(restaurants[i].pictureId)

\* C13: when the findOne of GET /:id/picture returns an existing restaurant
\* whose pictureId is absent or null, the answer is 404 in that step and no
\* download stream is opened on the bucket.
C13_NoPictureNotFound ==
  [][\A r \in Reqs : \A id \in IdInputs :
       ( /\ Starts(r) /\ req'[r].kind = "download"
         /\ CanStart(r) /\ ~GetDbThrows /\ ~GetBucketThrows
         /\ ObjectIdIsValid(id)
         /\ DownloadFound(r, id)
         /\ FindById(id) # NoDoc
         /\ \/ "pictureId" \notin DOMAIN FindById(id)
            \/ FindById(id).pictureId = 0 )
       => ( /\ req'[r].kind = "download" /\ req'[r].pc = "done"
            /\ req'[r].status = 404
            /\ req'[r].fileId = 0
            /\ files' = files /\ restaurants' = restaurants )
    ]_vars

\* C13 witness: a download was answered 404 without a stream for a
\* restaurant that exists and whose pictureId is null, while another
\* restaurant has no pictureId field.
C13_Witness ==
  \E r \in Reqs :
    /\ req[r].kind = "download" /\ req[r].pc = "done" /\ req[r].status = 404
    /\ req[r].fileId = 0
    /\ FindById(req[r].id) # NoDoc
    /\ "pictureId" \in DOMAIN FindById(req[r].id)
    /\ FindById(req[r].id).pictureId = 0
    /\ \E i \in DOMAIN restaurants :
         restaurants[i] # NoDoc /\ "pictureId" \notin DOMAIN restaurants[i]

\* The body carries uid, email, name and role, none of them empty.
AllPresent(body) ==
  \A f \in {"uid", "email", "name", "role"} : f \in DOMAIN body /\ body[f] # ""

C15_DuplicateUidConflict ==
  [][\A r \in Reqs : \A body \in UserBodies :
       ( /\ Starts(r) /\ req'[r].kind = "userCreate"
         /\ CanStart(r) /\ ~GetDbThrows
         /\ AllPresent(body)
         /\ body.role \in {"user", "restaurantOwner"}
         /\ UserCreateFound(r, body)
         /\ UsersOfUid(body.uid) # {} )
       => ( /\ req'[r].kind = "userCreate" /\ req'[r].pc = "done"
            /\ req'[r].status = 409
            /\ users' = users )
    ]_vars

\* C15 witness: a create was answered 409 for the uid of the one user.
C15_Witness ==
  \E r \in Reqs :
    /\ req[r].kind = "userCreate" /\ req[r].pc = "done" /\ req[r].status = 409
    /\ Len(users) = 1 /\ users[1] # NoDoc /\ users[1].uid = req[r].uid

\* C16: the users collection holds at most one user per uid.
C16_OneUserPerUid ==
  \A uid \in UidParams : Cardinality(UsersOfUid(uid)) <= 1

\* C17: every user in the collection has the role "user" or
\* "restaurantOwner".
C17_RoleInEnumeration ==
  \A i \in DOMAIN users :
    users[i] # NoDoc => users[i].role \in {"user", "restaurantOwner"}

\* C18: when the updateOne of PATCH /users/uid/:uid returns, the matched
\* user keeps its uid and has updatedAt = now, whatever uid and updatedAt
\* the body carries, no other user changes, and the answer is 200; with no
\* user of that uid the answer is 404 and nothing changes.
C18_UserPatchKeepsUid ==
  [][\A r \in Reqs : \A uid \in UidParams : \A body \in UserUpdateBodies :
       ( /\ Starts(r) /\ req'[r].kind = "userPatch"
         /\ CanStart(r) /\ ~GetDbThrows
         /\ UserPatched(r, uid, body) )
       => IF UsersOfUid(uid) = {}
          THEN req'[r].status = 404 /\ users' = users
          ELSE LET i == FirstOfUid(uid) IN
               /\ req'[r].status = 200
               /\ DOMAIN users' = DOMAIN users
               /\ users'[i] # NoDoc
               /\ users'[i].uid = uid /\ users[i].uid = uid
               /\ users'[i].updatedAt = now
               /\ \A j \in DOMAIN users : j # i => users'[j] = users[j]
    ]_vars

\* C18 witness: a PATCH whose body carried uid "u3", updatedAt 0 and role
\* "admin" was answered 200 at time 2 for a user created at time 1: the
\* user has the role, still its uid, and updatedAt 2.
C18_Witness ==
  /\ req[1].kind = "userPatch" /\ req[1].pc = "done" /\ req[1].status = 200
  /\ FindUser(req[1].uid) # NoDoc
  /\ FindUser(req[1].uid).role = "admin"
  /\ FindUser(req[1].uid).createdAt = 1
  /\ FindUser(req[1].uid).updatedAt = 2
  /\ now = 2

\* C19: when the updateOne of PATCH /users/uid/:uid/verify-email returns,
\* the matched user differs from before in isEmailVerified and updatedAt at
\* most, and every other user is unchanged, whatever the body carries.
C19_VerifyEmailNarrow ==
  [][\A r \in Reqs : \A uid \in UidParams : \A body \in VerifyBodies :
       ( /\ Starts(r) /\ req'[r].kind = "userVerify"
         /\ CanStart(r) /\ ~GetDbThrows
         /\ UserVerified(r, uid, body) )
       => /\ DOMAIN users' = DOMAIN users
          /\ \A j \in DOMAIN users :
               IF j = FirstOfUid(uid)
               THEN /\ users'[j] # NoDoc
                    /\ DOMAIN users'[j] = DOMAIN users[j]
                    /\ \A f \in (DOMAIN users[j]) \ {"isEmailVerified", "updatedAt"} :
                         users'[j][f] = users[j][f]
               ELSE users'[j] = users[j]
    ]_vars

\* C19 witness: a verify-email whose body carried isEmailVerified false
\* together with a role, a uid and a createdAt was answered 200 at time 2
\* for a user created at time 1: the flag and updatedAt are set, the role
\* and createdAt are the user's own.
C19_Witness ==
  /\ req[1].kind = "userVerify" /\ req[1].pc = "done" /\ req[1].status = 200
  /\ FindUser(req[1].uid) # NoDoc
  /\ FindUser(req[1].uid).isEmailVerified = JsFalse
  /\ FindUser(req[1].uid).role = "restaurantOwner"
  /\ FindUser(req[1].uid).createdAt = 1
  /\ FindUser(req[1].uid).updatedAt = 2

\* The statuses of the client errors.
ClientErrors == {400, 403, 404, 409}

\* C20: a request answered 400, 403, 404 or 409 has written nothing: the
\* answer comes in the request's first step, or from a picture download (no
\* step of which writes), and the restaurants, the users and the bucket are
\* the same before and after each of these steps.
C20_ClientErrorWritesNothing ==
  [][\A r \in Reqs :
       /\ ( Answers(r) /\ req'[r].status \in ClientErrors )
            => ( /\ Starts(r) \/ (req[r].kind = "download" /\ req[r].pc = "findFile")
                 /\ restaurants' = restaurants
                 /\ users' = users
                 /\ files' = files )
       /\ ( req'[r] # req[r] /\ req'[r].kind = "download" )
            => ( restaurants' = restaurants /\ users' = users /\ files' = files )
    ]_vars

\* C20 witness: a PATCH of a user was answered 404 while another user was
\* there to be updated.
C20_Witness ==
  /\ req[1].kind = "userPatch" /\ req[1].pc = "done" /\ req[1].status = 404
  /\ FindUser(req[1].uid) = NoDoc
  /\ \E i \in DOMAIN users : users[i] # NoDoc

\* C21: the document a POST / inserts has searchScore 10, the caller's
\* ownerId and createdAt = now, whatever searchScore and createdAt the body
\* carries; the other fields are the body's.
C21_CreateStamps ==
  [][\A r \in Reqs :
       ( /\ req[r].kind = "create" /\ req[r].pc = "insert"
         /\ req'[r].pc = "done" /\ req'[r].status = 201 )
       => LET doc == restaurants'[Len(restaurants) + 1] IN
          /\ Len(restaurants') = Len(restaurants) + 1
          /\ req'[r].id = Len(restaurants) + 1
          /\ doc.searchScore = 10
          /\ doc.ownerId = req[r].ownerId
          /\ doc.createdAt = now
          /\ doc.name = req[r].body.name
          /\ \A i \in DOMAIN restaurants : restaurants'[i] = restaurants[i]
    ]_vars

\* C21 witness: a create whose body carried searchScore 99 and createdAt 0
\* was answered 201 at time 2: its restaurant has searchScore 10 and
\* createdAt 2.
C21_Witness ==
  \E r \in Reqs :
    /\ req[r].kind = "create" /\ req[r].pc = "done" /\ req[r].status = 201
    /\ FindById(req[r].id) # NoDoc
    /\ FindById(req[r].id).name = "n2"
    /\ FindById(req[r].id).ownerId = req[r].ownerId
    /\ FindById(req[r].id).searchScore = 10
    /\ FindById(req[r].id).createdAt = 2

\* C22: the documents of a GET /search response are in descending order of
\* searchScore, and documents of equal searchScore are in the order of the
\* sortBy field (default name), descending when sortOrder is "desc" and
\* ascending otherwise.
C22_SearchScoreFirst ==
  ( getReq.route = "search" /\ getRes.status = 200 /\ "restaurants" \in DOMAIN getRes )
  => LET docs == getRes.restaurants
         by == IF getReq.sortBy.present THEN getReq.sortBy.value ELSE "name"
         desc == getReq.sortOrder.present /\ getReq.sortOrder.value = "desc" IN
     \A p \in 1..(Len(docs) - 1) :
       \/ docs[p].searchScore > docs[p + 1].searchScore
       \/ /\ docs[p].searchScore = docs[p + 1].searchScore
          /\ IF desc THEN SortValue(docs[p], by) >= SortValue(docs[p + 1], by)
             ELSE SortValue(docs[p], by) <= SortValue(docs[p + 1], by)

\* C23: when the connection attempt of startup has failed, the server has
\* not started listening and the process has exited.
C23_FailedConnectExits ==
  connect = "failed" => (startPc # "listening" /\ proc = "exited")

\* C24: whenever an upload answers 200 with a fileId, at that moment the
\* restaurant of the request exists and its pictureId is that fileId.
C24_UploadedPictureIsSet ==
  [][\A r \in Reqs :
       (req[r].kind = "upload" /\ Answers(r) /\ req'[r].status = 200)
         => /\ req'[r].id \in DOMAIN restaurants'
            /\ restaurants'[req'[r].id] # NoDoc
            /\ HasPicture(restaurants'[req'[r].id])
            /\ restaurants'[req'[r].id].pictureId = req'[r].fileId]_vars

\* C25: when no request is in progress, every live file of the bucket is
\* the pictureId of an existing restaurant.
C25_NoOrphanedFile ==
  (\A r \in Reqs : Free(r))
    => \A f \in DOMAIN files :
         Live(f) => \E i \in DOMAIN restaurants :
                      /\ restaurants[i] # NoDoc
                      /\ HasPicture(restaurants[i])
                      /\ restaurants[i].pictureId = f

\* C26: a PATCH /:id or DELETE /:id that modifies or deletes a restaurant
\* carries the ownerId the restaurant has stored at the moment of the write,
\* whatever ran between the handler's ownership check and its write.
C26_WritesOnlyOwn ==
  [][\A r \in Reqs :
       (req[r].kind \in {"patch", "delete"} /\ Answers(r) /\ restaurants' # restaurants)
         => /\ FindById(req[r].id) # NoDoc
            /\ FindById(req[r].id).ownerId = req[r].ownerId]_vars

\* A DELETE has removed a restaurant while a PATCH of the same restaurant
\* is between its ownership check and its update.
C26_Witness ==
  \E r, q \in Reqs :
    /\ req[r].kind = "delete" /\ req[r].pc = "done" /\ req[r].status = 200
    /\ FindById(req[r].id) = NoDoc
    /\ req[q].kind = "patch" /\ req[q].pc = "update" /\ req[q].id = req[r].id

\* C27: every upload and every download that is in progress is answered
\* in the end.
C27_PictureRequestAnswered ==
  (req[1].kind \in {"upload", "download"} /\ ~Free(1)) ~> Free(1)

====
